---- MODULE Spec2Model ----
(***************************************************************************)
(* Model of sum_stock_anan.py: a Streamlit script that downloads daily     *)
(* prices for the S&P 500 and five sector ETFs once (st.cache_data), lets  *)
(* the user pick a crash year, and on every execution slices the window,   *)
(* computes drawdown, recovery time, normalised sector performance,        *)
(* 30-observation rolling volatility and the return correlation matrix.    *)
(*                                                                         *)
(* Numbers.  A value is a record [tag, num, den]: "num" is the rational    *)
(* num/den (den > 0), "nan" is pandas' NaN, "none" is Python's None.       *)
(* Dates are day ordinals (days since 1970-01-01), computed from the       *)
(* year-month-day labels the script formats.                               *)
(***************************************************************************)
EXTENDS Integers, Sequences, FiniteSets, TLC

VARIABLES cache, fetchCount, year, status, report, fresh, arg, out

vars == <<cache, fetchCount, year, status, report, fresh, arg, out>>

-----------------------------------------------------------------------------
(* Settings (lines 10-18)                                                  *)

INDEX == "^GSPC"

SectorNames == <<"Technology", "Healthcare", "Energy", "Financials", "Consumer Discretionary">>

SECTORS == [n \in {SectorNames[i] : i \in 1..Len(SectorNames)} |->
              CASE n = "Technology" -> "XLK"
                [] n = "Healthcare" -> "XLV"
                [] n = "Energy" -> "XLE"
                [] n = "Financials" -> "XLF"
                [] n = "Consumer Discretionary" -> "XLY"]

CRASH_YEARS == <<2008, 2020, 2022>>

RollWindow == 30

-----------------------------------------------------------------------------
(* Values                                                                  *)

Num(n, d) == [tag |-> "num", num |-> n, den |-> d]

NaN == [tag |-> "nan", num |-> 0, den |-> 1]

None == [tag |-> "none", num |-> 0, den |-> 1]

IsNum(x) == x.tag = "num"

\* a < b for two "num" values (denominators are positive)
FracLess(a, b) == a.num * b.den < b.num * a.den

FracEq(a, b) == a.num * b.den = b.num * a.den

\* a >= b, pandas comparison: False when either side is NaN
FracGe(a, b) == IsNum(a) /\ IsNum(b) /\ ~FracLess(a, b)

-----------------------------------------------------------------------------
(* Dates: the label f"{y}-01-01" and its parse into a day ordinal          *)

DaysFromCivil(y, m, d) ==
    LET yy  == IF m <= 2 THEN y - 1 ELSE y
        era == yy \div 400
        yoe == yy - era * 400
        mp  == IF m > 2 THEN m - 3 ELSE m + 9
        doy == (153 * mp + 2) \div 5 + d - 1
        doe == yoe * 365 + yoe \div 4 - yoe \div 100 + doy
    IN  era * 146097 + doe - 719468

ParseDate(lbl) == DaysFromCivil(lbl[1], lbl[2], lbl[3])

start(y) == <<y - 1, 1, 1>>

end(y) == <<y + 1, 1, 1>>

-----------------------------------------------------------------------------
(* Series: a sequence of [d |-> date, v |-> value], dates strictly         *)
(* increasing.                                                             *)

RECURSIVE SelectRows(_, _, _)
\* rows of ser whose date d satisfies lo <= d <= hi, in order
SelectRows(ser, lo, hi) ==
    IF ser = <<>> THEN <<>>
    ELSE LET r == Head(ser)
         IN  IF lo <= r.d /\ r.d <= hi
             THEN <<r>> \o SelectRows(Tail(ser), lo, hi)
             ELSE SelectRows(Tail(ser), lo, hi)

\* a slice that stops before its end label, as positional slices do
LocSliceHalfOpen(ser, lo, hi) == SelectRows(ser, ParseDate(lo), ParseDate(hi) - 1)

\* series.loc[start:end] with string labels on a sorted DatetimeIndex:
\* both end points are included, labels outside the data select nothing.
LocSlice(ser, lo, hi) == SelectRows(ser, ParseDate(lo), ParseDate(hi))

Dates(ser) == {ser[i].d : i \in 1..Len(ser)}

-----------------------------------------------------------------------------
(* Arithmetic on values, element-wise as pandas does it: NaN propagates.   *)

RECURSIVE GCD(_, _)
GCD(a, b) == IF b = 0 THEN a ELSE GCD(b, a % b)

Abs(n) == IF n < 0 THEN -n ELSE n

\* the same rational in lowest terms
Reduce(x) ==
    IF ~IsNum(x) THEN x
    ELSE LET g == GCD(Abs(x.num), x.den)
         IN  Num(x.num \div g, x.den \div g)

\* a + b over the least common denominator
FracAdd(a, b) ==
    IF IsNum(a) /\ IsNum(b)
    THEN LET g == GCD(a.den, b.den)
         IN  Reduce(Num(a.num * (b.den \div g) + b.num * (a.den \div g),
                        (a.den \div g) * b.den))
    ELSE NaN

FracNeg(a) == IF IsNum(a) THEN Num(-a.num, a.den) ELSE a

FracSub(a, b) == FracAdd(a, FracNeg(b))

\* a * b, cancelling across before multiplying
FracMul(a, b) ==
    IF IsNum(a) /\ IsNum(b)
    THEN LET x == Reduce(Num(a.num, b.den))
             y == Reduce(Num(b.num, a.den))
         IN  Num(x.num * y.num, x.den * y.den)
    ELSE NaN

\* a / b for b > 0 (prices are strictly positive)
FracDiv(a, b) == FracMul(a, IF IsNum(b) THEN Num(b.den, b.num) ELSE b)

FracMax(a, b) == IF FracLess(a, b) THEN b ELSE a

Vals(ser) == [i \in 1..Len(ser) |-> ser[i].v]

-----------------------------------------------------------------------------
(* Drawdown and recovery (lines 46-59).  The series handed to these is the *)
(* index slice, whose values are all numbers.                              *)

RECURSIVE MaxUpTo(_, _)
\* max(vals[1..t]), t >= 1
MaxUpTo(vals, t) ==
    IF t = 1 THEN vals[1] ELSE FracMax(MaxUpTo(vals, t - 1), vals[t])

\* series.cummax()
\* the maximum of the whole series in every row, in place of the running one
cummax_global(series) == [t \in 1..Len(series) |-> MaxUpTo(Vals(series), Len(series))]

cummax(series) == [t \in 1..Len(series) |-> MaxUpTo(Vals(series), t)]

\* (series - roll_max) / roll_max
drawdown(series) ==
    LET roll_max == cummax(series)
    IN  [t \in 1..Len(series) |-> FracDiv(FracSub(series[t].v, roll_max[t]), roll_max[t])]

\* Series.min(): NaN for an empty series
SeriesMin(vals) ==
    IF Len(vals) = 0 THEN NaN
    ELSE CHOOSE m \in {vals[i] : i \in 1..Len(vals)} :
            \A i \in 1..Len(vals) : ~FracLess(vals[i], m)

max_drawdown(series) == SeriesMin(drawdown(series))

\* the position of the last occurrence of the minimum
idxmin_last(vals) ==
    CHOOSE t \in 1..Len(vals) :
        /\ \A i \in 1..Len(vals) : ~FracLess(vals[i], vals[t])
        /\ \A i \in (t + 1)..Len(vals) : FracLess(vals[t], vals[i])

\* Series.idxmin(): position of the first occurrence of the minimum
\* (called on a non-empty sequence only; the empty case raises, see below)
idxmin(vals) ==
    CHOOSE t \in 1..Len(vals) :
        /\ \A i \in 1..Len(vals) : ~FracLess(vals[i], vals[t])
        /\ \A i \in 1..(t - 1) : FracLess(vals[t], vals[i])

\* post[post >= peak_before].first_valid_index(): position in series of the
\* first row at or after trough whose value is >= peak; 0 stands for None
first_valid_index(series, trough, peak) ==
    LET hits == {t \in trough..Len(series) : FracGe(series[t].v, peak)}
    IN  IF hits = {} THEN 0 ELSE CHOOSE t \in hits : \A u \in hits : t <= u

\* "if recover_idx:" -- a Timestamp is always true, None is false
TruthyIndex(recover_idx) == recover_idx # 0

\* recovery_time(series): [exc, val]; exc = "ValueError" when idxmin is
\* applied to an empty series ("attempt to get argmin of an empty sequence")
recovery_time(series) ==
    IF Len(series) = 0 THEN [exc |-> "ValueError", val |-> None]
    ELSE LET trough      == idxmin(drawdown(series))
             peak_before == MaxUpTo(Vals(series), trough)
             recover_idx == first_valid_index(series, trough, peak_before)
         IN  IF TruthyIndex(recover_idx)
             THEN [exc |-> "", val |-> Num(series[recover_idx].d - series[trough].d, 1)]
             ELSE [exc |-> "", val |-> None]

-----------------------------------------------------------------------------
(* Returns and rolling volatility (lines 97-98)                            *)

One == Num(1, 1)

Zero == Num(0, 1)

\* series.pct_change(): v[t] / v[t-1] - 1, NaN in the first row and wherever
\* one of the two prices is missing (missing prices are leading ones only,
\* which no fill method fills)
pct_change(ser) ==
    [t \in 1..Len(ser) |->
        [d |-> ser[t].d,
         v |-> IF t = 1 THEN NaN
               ELSE Reduce(FracSub(FracDiv(ser[t].v, ser[t - 1].v), One))]]

\* series.dropna(): the rows whose value is not NaN
dropna(ser) == SelectSeq(ser, LAMBDA r : IsNum(r.v))

RECURSIVE LcmDen(_, _, _)
\* the least common denominator of vals[lo..hi], by halves
LcmDen(vals, lo, hi) ==
    IF lo > hi THEN 1
    ELSE IF lo = hi THEN vals[lo].den
    ELSE LET l == LcmDen(vals, lo, (lo + hi) \div 2)
             r == LcmDen(vals, ((lo + hi) \div 2) + 1, hi)
         IN  (l \div GCD(l, r)) * r

RECURSIVE SumNum(_, _, _, _)
\* the numerators of vals[lo..hi] over the denominator den, summed by halves
SumNum(vals, lo, hi, den) ==
    IF lo > hi THEN 0
    ELSE IF lo = hi THEN vals[lo].num * (den \div vals[lo].den)
    ELSE SumNum(vals, lo, (lo + hi) \div 2, den) + SumNum(vals, ((lo + hi) \div 2) + 1, hi, den)

\* sum of vals[lo..hi]; NaN if one of them is
SumVals(vals, lo, hi) ==
    IF \E i \in lo..hi : ~IsNum(vals[i]) THEN NaN
    ELSE LET den == LcmDen(vals, lo, hi)
         IN  IF den > 0 THEN Reduce(Num(SumNum(vals, lo, hi, den), den)) ELSE NaN

\* sample variance (ddof = 1) of vals[lo..hi], n = hi - lo + 1 >= 2:
\* (sum x^2 - (sum x)^2 / n) / (n - 1)
SampleVar(vals, lo, hi) ==
    LET n   == hi - lo + 1
        sq  == [i \in 1..Len(vals) |-> FracMul(vals[i], vals[i])]
        s1  == SumVals(vals, lo, hi)
        s2  == SumVals(sq, lo, hi)
    IN  IF IsNum(s1) /\ IsNum(s2)
        THEN FracMul(FracSub(s2, FracMul(FracMul(s1, s1), Num(1, n))), Num(1, n - 1))
        ELSE NaN

\* one observation fewer than the window
MinPeriodsShort(window) == window - 1

\* Rolling.std() requires min_periods observations; min_periods defaults to
\* the window length
MinPeriods(window) == window

\* ret.rolling(window).std(): one row per row of ret; a row is NaN unless its
\* trailing window holds at least min_periods non-NaN observations.  A defined
\* row carries the sample variance, the square of the standard deviation.
rolling_std(ret, window) ==
    [t \in 1..Len(ret) |->
        LET lo    == IF t - window + 1 < 1 THEN 1 ELSE t - window + 1
            count == Cardinality({i \in lo..t : IsNum(ret[i].v)})
        IN  [d |-> ret[t].d,
             v |-> IF count >= MinPeriods(window)
                   THEN Reduce(SampleVar(Vals(ret), lo, t))
                   ELSE NaN]]

-----------------------------------------------------------------------------
(* The raw dataset (a DataFrame) and get_adj_close (lines 39-43).          *)
(*                                                                         *)
(* A dataset is [multi, index, columns]: multi says whether the column     *)
(* index is a pandas MultiIndex, index is the sequence of dates, and each  *)
(* column is [key, vals, of, field]: key is the tuple of column labels,    *)
(* vals the values row by row.  "of" and "field" record which instrument   *)
(* and which price field the values really are; the code never reads them. *)

Tickers == <<INDEX>> \o [i \in 1..Len(SectorNames) |-> SECTORS[SectorNames[i]]]

Column(key, vals, of, field) == [key |-> key, vals |-> vals, of |-> of, field |-> field]

ColSeries(raw, c) == [i \in 1..Len(raw.index) |-> [d |-> raw.index[i], v |-> c.vals[i]]]

\* isinstance(raw_df.columns, pd.MultiIndex)
IsMultiIndex(raw) == raw.multi

\* frame[label]: the columns filed under label at the first level, with that
\* level dropped; none at all is a KeyError
Lookup(columns, label) ==
    LET hit == SelectSeq(columns, LAMBDA c : Len(c.key) >= 1 /\ c.key[1] = label)
    IN  [exc  |-> IF hit = <<>> THEN "KeyError" ELSE "",
         cols |-> [i \in 1..Len(hit) |-> [hit[i] EXCEPT !.key = Tail(hit[i].key)]]]

\* frame["Close"] as a series: [exc, ser]
CloseColumn(raw_df, cl) ==
    IF cl.exc # "" THEN [exc |-> cl.exc, ser |-> <<>>]
    ELSE [exc |-> "", ser |-> ColSeries(raw_df, cl.cols[1])]

\* sub["Close"] for sub = raw_df[ticker]; a KeyError of raw_df[ticker] passes on
CloseOf(raw_df, sub) ==
    IF sub.exc # "" THEN [exc |-> sub.exc, ser |-> <<>>]
    ELSE CloseColumn(raw_df, Lookup(sub.cols, "Close"))

\* get_adj_close(raw_df, ticker): [exc, ser]
get_adj_close(raw_df, ticker) ==
    IF IsMultiIndex(raw_df)
    THEN CloseOf(raw_df, Lookup(raw_df.columns, ticker))
    ELSE CloseColumn(raw_df, Lookup(raw_df.columns, "Close"))

-----------------------------------------------------------------------------
(* Sector normalisation (line 86) and the correlation matrix (103-108)     *)

\* ser / ser.iloc[0]: [exc, ser]; iloc[0] of an empty series is an IndexError
normalize(ser) ==
    IF Len(ser) = 0 THEN [exc |-> "IndexError", ser |-> <<>>]
    ELSE [exc |-> "",
          ser |-> [t \in 1..Len(ser) |->
                     [d |-> ser[t].d, v |-> Reduce(FracDiv(ser[t].v, ser[1].v))]]]

\* frame[name] = ser: the new column takes the frame's row labels; a label
\* the series lacks gets NaN, a row of the series the frame lacks is dropped
Reindex(ser, index) ==
    [i \in 1..Len(index) |->
        [d |-> index[i],
         v |-> IF \E t \in 1..Len(ser) : ser[t].d = index[i]
               THEN (CHOOSE r \in {ser[t] : t \in 1..Len(ser)} : r.d = index[i]).v
               ELSE NaN]]

SeqDates(ser) == [i \in 1..Len(ser) |-> ser[i].d]

Sign(n) == IF n < 0 THEN -1 ELSE IF n > 0 THEN 1 ELSE 0

\* The coefficient from the sums over the n rows used (scaled by n):
\* cov / sqrt(vx * vy), kept as its sign and its square; NaN where there is
\* no row or a variance is 0
Pearson(n, sx, sy, sxy, sxx, syy) ==
    LET cov == FracSub(FracMul(sxy, Num(n, 1)), FracMul(sx, sy))
        vx  == FracSub(FracMul(sxx, Num(n, 1)), FracMul(sx, sx))
        vy  == FracSub(FracMul(syy, Num(n, 1)), FracMul(sy, sy))
    IN  IF n = 0 \/ vx.num = 0 \/ vy.num = 0
        THEN [sign |-> 0, r2 |-> NaN]
        ELSE [sign |-> Sign(cov.num), r2 |-> FracDiv(FracMul(cov, cov), FracMul(vx, vy))]

Products(xs, ys) == [k \in 1..Len(xs) |-> FracMul(xs[k], ys[k])]

\* the entry for the paired observations xs, ys made on the dates used
EntryOf(used, xs, ys) ==
    LET n == Len(xs)
        r == Pearson(n, SumVals(xs, 1, n), SumVals(ys, 1, n),
                     SumVals(Products(xs, ys), 1, n),
                     SumVals(Products(xs, xs), 1, n),
                     SumVals(Products(ys, ys), 1, n))
    IN  [dates |-> used, sign |-> r.sign, r2 |-> r.r2]

\* the rows where both columns are not NaN
CompleteRows(x, y) ==
    SelectSeq([i \in 1..Len(x) |-> i], LAMBDA i : IsNum(x[i].v) /\ IsNum(y[i].v))

PairedEntry(x, y, rows) ==
    EntryOf({x[rows[k]].d : k \in 1..Len(rows)},
            [k \in 1..Len(rows) |-> x[rows[k]].v],
            [k \in 1..Len(rows) |-> y[rows[k]].v])

\* One entry of DataFrame.corr() (Pearson, min_periods = 1) for two columns
\* of the same frame, computed over the rows where both columns are not
\* NaN.  The entry is [dates, sign, r2]: the dates of the rows used, and the
\* coefficient as its sign and its square.
corr_entry(x, y) == PairedEntry(x, y, CompleteRows(x, y))

\* corr_df.corr(): the matrix over the columns of the frame, in order
corr(columns) ==
    [a \in 1..Len(columns) |-> [b \in 1..Len(columns) |-> corr_entry(columns[a], columns[b])]]

-----------------------------------------------------------------------------
(* The report: one execution of the script from line 63 on (lines 63-109). *)
(* An exception ends the execution; what was rendered before it stays on   *)
(* the page, what comes after it is never computed.                        *)

Line(text, n) == [text |-> text, n |-> n]

NoLine == Line("", 0)

\* f"{dd:.2%}": the fraction as a percentage with two decimals, i.e. in
\* basis points rounded to nearest (ties to even); "nan%" for NaN
DdLine(dd) ==
    IF ~IsNum(dd) THEN Line("nan%", 0)
    ELSE LET a == Abs(dd.num) * 10000
             q == a \div dd.den
             r == a % dd.den
             m == IF 2 * r < dd.den THEN q
                  ELSE IF 2 * r > dd.den THEN q + 1
                  ELSE IF q % 2 = 0 THEN q ELSE q + 1
         IN  Line("%", Sign(dd.num) * m)

\* "rt if rt else ...": None and 0 are both false
Truthy(rt) == rt.tag = "num" /\ rt.num # 0

\* f"{rt if rt else 'Not recovered'} days"
RtLine(rt) == IF Truthy(rt) THEN Line("days", rt.num) ELSE Line("Not recovered days", 0)

NoReport ==
    [window |-> <<>>, idx_ser |-> <<>>, shown |-> 0, dd |-> None, rt |-> None,
     dd_line |-> NoLine, rt_line |-> NoLine, df_perf |-> <<>>, vol30 |-> <<>>,
     corr_dates |-> <<>>, corr |-> <<>>]

\* g.loc[start:end] for g = get_adj_close(...); an exception of g passes on
SliceOf(g, y) ==
    IF g.exc # "" THEN g ELSE [exc |-> "", ser |-> LocSlice(g.ser, start(y), end(y))]

\* get_adj_close(df_all, ticker).loc[start:end]: [exc, ser]
WindowSlice(df_all, ticker, y) == SliceOf(get_adj_close(df_all, ticker), y)

\* line 86 for one sector: ser / ser.iloc[0], [exc, ser]
NormalizeSlice(s) == IF s.exc # "" THEN s ELSE normalize(s.ser)

\* df_perf from the columns the loop computed: the first exception of the
\* loop ends it; the first column gives the frame its row labels
PerfFrame(all) ==
    LET bad == {k \in 1..Len(all) : all[k].exc # ""}
    IN  IF bad # {}
        THEN [exc |-> all[CHOOSE k \in bad : \A j \in bad : k <= j].exc, cols |-> <<>>]
        ELSE [exc |-> "",
              cols |-> [k \in 1..Len(all) |->
                          IF k = 1 THEN all[1].ser
                          ELSE Reindex(all[k].ser, SeqDates(all[1].ser))]]

\* lines 83-86: the normalised sector columns, [exc, cols]
SectorPerformance(df_all, y) ==
    PerfFrame([k \in 1..Len(SectorNames) |->
                 NormalizeSlice(WindowSlice(df_all, SECTORS[SectorNames[k]], y))])

\* lines 103-106: the columns of corr_df, the index returns first
CorrFrame(df_all, y, ret) ==
    <<ret>> \o
    [k \in 1..Len(SectorNames) |->
        Reindex(pct_change(WindowSlice(df_all, SECTORS[SectorNames[k]], y).ser), SeqDates(ret))]

\* lines 97-109: volatility and correlation complete the report
VolatilityAndCorrelation(df_all, y, r, df_perf, ret) ==
    [status |-> "ok",
     report |-> [r EXCEPT !.df_perf = df_perf, !.shown = 5,
                          !.vol30 = rolling_std(ret, RollWindow),
                          !.corr_dates = SeqDates(ret),
                          !.corr = corr(CorrFrame(df_all, y, ret))]]

\* lines 83-93: an exception of the sector loop ends the execution
SectorSection(df_all, y, r, perf) ==
    IF perf.exc # "" THEN [status |-> perf.exc, report |-> r]
    ELSE VolatilityAndCorrelation(df_all, y, r, perf.cols, dropna(pct_change(r.idx_ser)))

\* lines 76-79: dd and rt are computed before either line is rendered
SummarySection(df_all, y, r, dd, rt) ==
    IF rt.exc # "" THEN [status |-> rt.exc, report |-> [r EXCEPT !.dd = dd]]
    ELSE SectorSection(df_all, y,
                       [r EXCEPT !.dd = dd, !.rt = rt.val, !.shown = 2,
                                 !.dd_line = DdLine(dd), !.rt_line = RtLine(rt.val)],
                       SectorPerformance(df_all, y))

\* lines 68-72: the index slice and its chart
IndexSection(df_all, y, r, idx) ==
    IF idx.exc # "" THEN [status |-> idx.exc, report |-> r]
    ELSE SummarySection(df_all, y, [r EXCEPT !.idx_ser = idx.ser, !.shown = 1],
                        max_drawdown(idx.ser), recovery_time(idx.ser))

\* the script from line 63 to its end for the selected year: [status, report]
Script(df_all, y) ==
    IndexSection(df_all, y, [NoReport EXCEPT !.window = <<start(y), end(y)>>],
                 WindowSlice(df_all, INDEX, y))

-----------------------------------------------------------------------------
(* What the data source may return for the six tickers with                *)
(* group_by="ticker" (lines 25-33): a frame keyed by ticker, then field,   *)
(* all tickers on one date index.  The index has a price on every date; at *)
(* most one sector (Energy here) is listed late, NaN on its first dates.   *)

MaxDates == 3

MaxPrice == 2

MaxLead == 1

MaxFetch == 2

\* candidate dates: the first and last day of the 2008 window, a day in it,
\* and the day that ends the 2020 window and starts the 2022 one
DatePool ==
    <<ParseDate(<<2007, 1, 1>>), ParseDate(<<2008, 9, 15>>), ParseDate(<<2009, 1, 1>>),
      ParseDate(<<2021, 1, 1>>)>>

RECURSIVE PickDates(_, _)
\* the dates of the pool at the positions in S, in calendar order
PickDates(S, i) ==
    IF i > Len(DatePool) THEN <<>>
    ELSE IF i \in S THEN <<DatePool[i]>> \o PickDates(S, i + 1)
    ELSE PickDates(S, i + 1)

\* sector k moves with the index, at k times its level
SectorPrice(p, k) == p * k

GroupedDataset(index, prices, late, lead) ==
    [multi   |-> TRUE,
     index   |-> index,
     columns |->
        [c \in 1..Len(Tickers) |->
            Column(<<Tickers[c], "Close">>,
                   [i \in 1..Len(index) |->
                       IF c = 1 THEN Num(prices[i], 1)
                       ELSE IF c - 1 = late /\ i <= lead THEN NaN
                       ELSE Num(SectorPrice(prices[i], c - 1), 1)],
                   Tickers[c], "Close")]]

LateSector == 3

\* no sector late, or sector lt[1] missing on the first lt[2] dates
Lates == {<<0, 0>>} \cup ({LateSector} \X (1..MaxLead))

Datasets ==
    UNION {{GroupedDataset(PickDates(S, 1), prices, lt[1], lt[2]) :
                prices \in [1..Cardinality(S) -> 1..MaxPrice], lt \in Lates} :
           S \in {T \in SUBSET (1..Len(DatePool)) : Cardinality(T) <= MaxDates}}

-----------------------------------------------------------------------------
(* The session (lines 23-36 and 63): st.cache_data keeps the value         *)
(* download_data returned, for the life of the server process; every       *)
(* execution of the script calls download_data and runs to its end or to   *)
(* its first exception.                                                    *)

Years == {CRASH_YEARS[i] : i \in 1..Len(CRASH_YEARS)}

\* a cache that never answers
NeverHit(c) == FALSE

\* st.cache_data: a stored value is returned without calling the function
CacheHit(c) == c # <<>>

\* st.selectbox (line 63): the first option on the first execution of a
\* session; afterwards whatever the user picks, provided the execution
\* before got as far as rendering the selectbox
Selectable ==
    IF status = "start" THEN {CRASH_YEARS[1]}
    ELSE IF status = "FetchError" THEN {}
    ELSE Years

Run(y, df_all) ==
    LET res == Script(df_all, y)
    IN  /\ year' = y
        /\ status' = res.status
        /\ report' = res.report

\* History: what the first execution of a session shows for each year on the
\* dataset the server fetched first.  Nothing reads it.
Fresh(df_all) == [y \in Years |-> Script(df_all, y)]

\* an execution whose download_data call runs yf.download and stores its result
Load(y) ==
    /\ y \in Selectable
    /\ ~CacheHit(cache)
    /\ fetchCount < MaxFetch
    /\ \E fetched \in Datasets :
          /\ cache' = <<fetched>>
          /\ Run(y, fetched)
          /\ fresh' = IF fresh = <<>> THEN <<Fresh(fetched)>> ELSE fresh
    /\ fetchCount' = fetchCount + 1
    /\ UNCHANGED <<arg, out>>

\* an execution whose yf.download raises: nothing is stored, the script ends
\* at line 36, before the selectbox
LoadFail(y) ==
    /\ y \in Selectable
    /\ ~CacheHit(cache)
    /\ fetchCount < MaxFetch
    /\ fetchCount' = fetchCount + 1
    /\ status' = "FetchError"
    /\ report' = NoReport
    /\ UNCHANGED <<cache, year, fresh, arg, out>>

\* an execution that keeps what the execution before derived, whatever the
\* year now selected
ReuseStale(y) ==
    /\ y \in Selectable
    /\ CacheHit(cache)
    /\ year' = y
    /\ IF status = "start" THEN Run(y, cache[1]) ELSE UNCHANGED <<status, report>>
    /\ UNCHANGED <<cache, fetchCount, fresh, arg, out>>

\* an execution whose download_data call is answered from the cache
Reuse(y) ==
    /\ y \in Selectable
    /\ CacheHit(cache)
    /\ Run(y, cache[1])
    /\ UNCHANGED <<cache, fetchCount, fresh, arg, out>>

\* the page is opened again: a new session of the same server process
NewSession ==
    /\ status # "start"
    /\ status' = "start"
    /\ year' = 0
    /\ report' = NoReport
    /\ fetchCount' = 0
    /\ UNCHANGED <<cache, fresh, arg, out>>

Init ==
    /\ cache = <<>>
    /\ fetchCount = 0
    /\ year = 0
    /\ status = "start"
    /\ report = NoReport
    /\ fresh = <<>>
    /\ arg = <<>>
    /\ out = <<>>

Next ==
    \/ \E y \in Years : Load(y)
    \/ \E y \in Years : LoadFail(y)
    \/ \E y \in Years : Reuse(y)
    \/ NewSession

Spec == Init /\ [][Next]_vars

-----------------------------------------------------------------------------
(* The engine functions on their own: max_drawdown and recovery_time       *)
(* applied to a non-empty series of positive prices on increasing dates.   *)

EngMaxLen == 4

EngMaxPrice == 3

\* days between consecutive observations: the next day, or over a weekend
Gaps == {1, 3}

RECURSIVE DaysTo(_, _, _)
\* gaps[lo] + ... + gaps[hi], by halves
DaysTo(gaps, lo, hi) ==
    IF lo > hi THEN 0
    ELSE IF lo = hi THEN gaps[lo]
    ELSE DaysTo(gaps, lo, (lo + hi) \div 2) + DaysTo(gaps, ((lo + hi) \div 2) + 1, hi)

\* the series with the given prices, starting on date d, gaps[i] days from
\* observation i to observation i + 1
SeriesFrom(d, prices, gaps) ==
    [i \in 1..Len(prices) |-> [d |-> d + DaysTo(gaps, 1, i - 1), v |-> Num(prices[i], 1)]]

\* the scenario series of the specification, on five consecutive days
Scenario == SeriesFrom(DatePool[1], <<100, 110, 90, 95, 130>>, <<1, 1, 1, 1>>)

InitIdle ==
    /\ cache = <<>>
    /\ fetchCount = 0
    /\ year = 0
    /\ status = "start"
    /\ report = NoReport
    /\ fresh = <<>>
    /\ out = <<>>

\* the scenario, or any series of up to EngMaxLen prices in 1..EngMaxPrice
InitEngine ==
    /\ InitIdle
    /\ \/ arg = Scenario
       \/ \E n \in 1..EngMaxLen :
             \E prices \in [1..n -> 1..EngMaxPrice], gaps \in [1..(n - 1) -> Gaps] :
                arg = SeriesFrom(DatePool[1], prices, gaps)

CallMaxDrawdown ==
    /\ out = <<>>
    /\ out' = <<"max_drawdown", [exc |-> "", val |-> max_drawdown(arg)]>>
    /\ UNCHANGED <<cache, fetchCount, year, status, report, fresh, arg>>

CallRecoveryTime ==
    /\ out = <<>>
    /\ out' = <<"recovery_time", recovery_time(arg)>>
    /\ UNCHANGED <<cache, fetchCount, year, status, report, fresh, arg>>

NextEngine == CallMaxDrawdown \/ CallRecoveryTime

SpecEngine == InitEngine /\ [][NextEngine]_vars

-----------------------------------------------------------------------------
(* Lines 97-98 on their own, on index slices long enough to fill the       *)
(* 30-observation window: prices repeat a pattern of VolPeriod values.     *)

VolMaxLen == 33

VolPeriod == 3

\* a slice of up to VolMaxLen consecutive days
InitVol ==
    /\ InitIdle
    /\ \E n \in 0..VolMaxLen, pat \in [1..VolPeriod -> 1..MaxPrice] :
          arg = SeriesFrom(DatePool[1], [i \in 1..n |-> pat[((i - 1) % VolPeriod) + 1]],
                           [i \in 1..(n - 1) |-> 1])

\* ret = idx_ser.pct_change().dropna(); vol30 = ret.rolling(window=30).std()
Volatility(idx_ser) == rolling_std(dropna(pct_change(idx_ser)), RollWindow)

CallVolatility ==
    /\ out = <<>>
    /\ out' = <<"vol30", [ret |-> dropna(pct_change(arg)), vol30 |-> Volatility(arg)]>>
    /\ UNCHANGED <<cache, fetchCount, year, status, report, fresh, arg>>

NextVol == CallVolatility

SpecVol == InitVol /\ [][NextVol]_vars

-----------------------------------------------------------------------------
(* get_adj_close on its own, on the shapes the data source produces: the   *)
(* frame keyed by ticker then field (group_by="ticker"), the flat frame of *)
(* a single instrument, the frame keyed by field then ticker (the source's *)
(* default grouping), and the frame of closing prices with one column per  *)
(* ticker.                                                                 *)

StoreMaxRows == 2

Fields == <<"Open", "Close">>

\* instrument c trades at c times the base price; it opens one above
FieldPrice(p, c, f) == IF f = "Close" THEN Num(p * c, 1) ELSE Num(p * c + 1, 1)

FieldColumn(key, prices, c, f) ==
    Column(key, [i \in 1..Len(prices) |-> FieldPrice(prices[i], c, f)], Tickers[c], f)

\* every ticker with every field, keyed by ticker then field, or by field
\* then ticker
AllColumns(prices, tickerFirst) ==
    [j \in 1..(Len(Tickers) * Len(Fields)) |->
        LET c == ((j - 1) \div Len(Fields)) + 1
            f == Fields[((j - 1) % Len(Fields)) + 1]
        IN  FieldColumn(IF tickerFirst THEN <<Tickers[c], f>> ELSE <<f, Tickers[c]>>,
                        prices, c, f)]

Frame(multi, index, columns) == [multi |-> multi, index |-> index, columns |-> columns]

ByTicker(index, prices) ==
    Frame(TRUE, index, AllColumns(prices, TRUE))

ByField(index, prices) ==
    Frame(TRUE, index, AllColumns(prices, FALSE))

Flat(index, prices, c) ==
    Frame(FALSE, index, [j \in 1..Len(Fields) |-> FieldColumn(<<Fields[j]>>, prices, c, Fields[j])])

Wide(index, prices) ==
    Frame(FALSE, index, [c \in 1..Len(Tickers) |-> FieldColumn(<<Tickers[c]>>, prices, c, "Close")])

\* the frames of the four shapes on the given dates and base prices
StoreFrames(index, prices) ==
    {ByTicker(index, prices), ByField(index, prices), Wide(index, prices)}
        \cup {Flat(index, prices, c) : c \in 1..Len(Tickers)}

InitStore ==
    /\ InitIdle
    /\ \E n \in 1..StoreMaxRows :
          \E prices \in [1..n -> 1..MaxPrice], c \in 1..Len(Tickers) :
             \E f \in StoreFrames(SubSeq(DatePool, 1, n), prices) :
                arg = [raw_df |-> f, ticker |-> Tickers[c]]

CallGetAdjClose ==
    /\ out = <<>>
    /\ out' = <<"get_adj_close", get_adj_close(arg.raw_df, arg.ticker)>>
    /\ UNCHANGED <<cache, fetchCount, year, status, report, fresh, arg>>

NextStore == CallGetAdjClose

SpecStore == InitStore /\ [][NextStore]_vars

-----------------------------------------------------------------------------
(* Properties.  The definitions below restate the specification on a price *)
(* series s (whole-number prices): they use none of the operators above.   *)

Price(s, t) == s[t].v.num

\* M(t) = max(s[1..t])
RunMax(s, t) == CHOOSE m \in {Price(s, i) : i \in 1..t} : \A i \in 1..t : Price(s, i) <= m

\* drawdown(t) < drawdown(u), drawdown(t) = (s[t] - M(t)) / M(t)
DDLess(s, t, u) ==
    (Price(s, t) - RunMax(s, t)) * RunMax(s, u) < (Price(s, u) - RunMax(s, u)) * RunMax(s, t)

\* t*: the earliest index at which the drawdown is minimal
TroughOf(s) ==
    CHOOSE t \in 1..Len(s) :
        /\ \A u \in 1..Len(s) : ~DDLess(s, u, t)
        /\ \A u \in 1..(t - 1) : DDLess(s, t, u)

\* the indices t' >= t* with s[t'] >= peak = M(t*)
RecoveryAt(s) == {t \in TroughOf(s)..Len(s) : Price(s, t) >= RunMax(s, TroughOf(s))}

ExpectedRecovery(s) ==
    IF RecoveryAt(s) = {} THEN None
    ELSE LET t == CHOOSE r \in RecoveryAt(s) : \A q \in RecoveryAt(s) : r <= q
         IN  Num(s[t].d - s[TroughOf(s)].d, 1)

NonDecreasing(s) == \A t \in 1..(Len(s) - 1) : Price(s, t) <= Price(s, t + 1)

Called(fn) == out # <<>> /\ out[1] = fn

\* C1: for a non-empty series of positive prices on increasing dates,
\* recovery_time returns the days from the trough t* (the earliest index of
\* minimal drawdown) to the first index t' >= t* whose price is at least
\* max(s[1..t*]), and None exactly when there is no such index.
C1_RecoveryTime ==
    Called("recovery_time") => out[2].exc = "" /\ out[2].val = ExpectedRecovery(arg)

\* the scenario [100,110,90,95,130]: trough at the third observation, peak
\* 110, recovered at the fifth, two days later
C1_Witness ==
    /\ Called("recovery_time")
    /\ arg = Scenario
    /\ TroughOf(arg) = 3
    /\ RunMax(arg, 3) = 110
    /\ out[2].val = Num(arg[5].d - arg[3].d, 1)

\* C5: for a non-empty series of positive prices, max_drawdown is the
\* minimum over t of (s[t] - M(t)) / M(t), lies in (-1, 0], and is 0 exactly
\* for the non-decreasing series.
C5_MaxDrawdown ==
    Called("max_drawdown") =>
        LET v == out[2].val
        IN  /\ IsNum(v) /\ v.den > 0
            /\ -v.den < v.num /\ v.num <= 0
            /\ \A t \in 1..Len(arg) :
                  v.num * RunMax(arg, t) <= (Price(arg, t) - RunMax(arg, t)) * v.den
            /\ \E t \in 1..Len(arg) :
                  v.num * RunMax(arg, t) = (Price(arg, t) - RunMax(arg, t)) * v.den
            /\ (v.num = 0 <=> NonDecreasing(arg))

\* a rising series, with drawdown 0
C5_Witness ==
    /\ Called("max_drawdown")
    /\ Len(arg) >= 3
    /\ NonDecreasing(arg)
    /\ Price(arg, 1) < Price(arg, Len(arg))
    /\ out[2].val.num = 0

\* C6: the rolling volatility has one entry per return observation; its
\* first 29 entries are missing and every later entry is defined (so all
\* are missing for fewer than 30 returns); a missing entry is NaN, not 0.
C6_RollingWarmup ==
    Called("vol30") =>
        LET ret == out[2].ret
            vol == out[2].vol30
        IN  /\ Len(vol) = Len(ret)
            /\ \A i \in 1..Len(vol) :
                  /\ vol[i].d = ret[i].d
                  /\ (i <= 29 => vol[i].v = NaN)
                  /\ (i >= 30 => IsNum(vol[i].v))

\* 31 returns or more: entry 29 missing, entries 30 and 31 defined
C6_Witness ==
    /\ Called("vol30")
    /\ Len(out[2].vol30) >= 31
    /\ out[2].vol30[29].v = NaN
    /\ IsNum(out[2].vol30[30].v)
    /\ IsNum(out[2].vol30[31].v)

Executed == status \notin {"start", "FetchError"}

\* C7: in a session the bulk fetch runs at most once, and once its result is
\* cached no execution fetches again or replaces the cached dataset.
C7_FetchOnce ==
    [][/\ fetchCount' <= 1
       /\ cache # <<>> => (fetchCount' <= fetchCount /\ cache' = cache)]_vars

\* a later selection of the session that fetched
C7_Witness == fetchCount = 1 /\ year = 2022 /\ status = "ok"

C2_NotRecoveredOnlyWhenUnrecovered ==
    report.shown >= 2 =>
        /\ report.rt = None <=> RecoveryAt(report.idx_ser) = {}
        /\ report.rt_line.text = "Not recovered days" <=> RecoveryAt(report.idx_ser) = {}

\* C3: the index slice holds exactly the observations dated d with
\* (Y-1)-01-01 <= d < (Y+1)-01-01, and so does every sector column.
C3_HalfOpenWindow ==
    report.shown >= 1 =>
        LET inside == {d \in {cache[1].index[i] : i \in 1..Len(cache[1].index)} :
                          /\ ParseDate(<<year - 1, 1, 1>>) <= d
                          /\ d < ParseDate(<<year + 1, 1, 1>>)}
        IN  /\ Dates(report.idx_ser) = inside
            /\ \A k \in 1..Len(report.df_perf) : Dates(report.df_perf[k]) = inside

\* C3 (amended): the index slice holds exactly the observations dated d with
\* (Y-1)-01-01 <= d <= (Y+1)-01-01, both ends included, and so does every
\* sector column; taking the slice raises nothing, whatever dates the
\* dataset covers.
C3_ClosedWindow ==
    Executed =>
        LET inside == {d \in {cache[1].index[i] : i \in 1..Len(cache[1].index)} :
                          /\ ParseDate(<<year - 1, 1, 1>>) <= d
                          /\ d <= ParseDate(<<year + 1, 1, 1>>)}
        IN  /\ report.shown >= 1
            /\ Dates(report.idx_ser) = inside
            /\ \A k \in 1..Len(report.df_perf) : Dates(report.df_perf[k]) = inside

\* the 2008 report on a dataset with observations on 2007-01-01, 2009-01-01
\* and 2021-01-01: the first two are in the slice, the third is not
C3_Witness ==
    /\ status = "ok"
    /\ year = 2008
    /\ Dates(report.idx_ser) = {ParseDate(<<2007, 1, 1>>), ParseDate(<<2009, 1, 1>>)}
    /\ ParseDate(<<2021, 1, 1>>) \in {cache[1].index[i] : i \in 1..Len(cache[1].index)}
    /\ Len(report.df_perf) = Len(SectorNames)

\* C4: every entry of the correlation matrix is computed over the dates on
\* which all six series have a return.
C4_CommonDates ==
    status = "ok" =>
        LET n      == Len(report.corr)
            common == {d \in {report.corr_dates[i] : i \in 1..Len(report.corr_dates)} :
                          \A c \in 1..n : d \in report.corr[c][c].dates}
        IN  \A a \in 1..n : \A b \in 1..n : report.corr[a][b].dates = common

\* C9: an execution whose index slice is empty does not end in an unhandled
\* exception, and shows neither a drawdown nor a recovery time of 0.
C9_EmptySliceHandled ==
    (Executed /\ report.shown >= 1 /\ report.idx_ser = <<>>) =>
        /\ status = "ok"
        /\ report.dd # Zero
        /\ report.rt # Zero

\* a frame is keyed by ticker then field, or is the flat frame of one instrument
IsByTicker(f) ==
    f.multi /\ \A i \in 1..Len(f.columns) : f.columns[i].key = <<f.columns[i].of, f.columns[i].field>>

IsFlat(f) ==
    /\ ~f.multi
    /\ \A i \in 1..Len(f.columns) :
          f.columns[i].key = <<f.columns[i].field>> /\ f.columns[i].of = f.columns[1].of

\* C8: on a frame that is neither flat nor keyed by ticker, get_adj_close
\* raises and returns no series; and a series it returns is the Close column
\* the frame holds for the requested ticker.
C8_NoForeignSeries ==
    Called("get_adj_close") =>
        /\ (~IsByTicker(arg.raw_df) /\ ~IsFlat(arg.raw_df)) =>
              (out[2].exc # "" /\ out[2].ser = <<>>)
        /\ out[2].exc = "" =>
              \E i \in 1..Len(arg.raw_df.columns) :
                  /\ arg.raw_df.columns[i].of = arg.ticker
                  /\ arg.raw_df.columns[i].field = "Close"
                  /\ out[2].ser = ColSeries(arg.raw_df, arg.raw_df.columns[i])

====
